---- MODULE Spec2Model ----
(***************************************************************************)
(* Contract workflow orchestrator of the real-estate contract automation   *)
(* (src/lib/langchain/chains/document-processing.ts and the pipelines it   *)
(* drives).  Every call of executeContractWorkflow is a run: it builds its  *)
(* own ContractWorkflowOrchestrator and executes the input.  A run moves    *)
(* from one suspension point (await of an external service) to the next;   *)
(* the outcome of every external call is a nondeterministic choice.        *)
(* Text is modelled as a sequence of string pieces, concatenated with \o.  *)
(***************************************************************************)
EXTENDS Integers, Sequences, FiniteSets, TLC

\* Largest options.maxRetries a caller supplies in the model.
MaxRetries == 2

\* The calls of executeContractWorkflow that may be in flight together.
Runs == {1, 2}

\* The call made when the workflow is exercised alone.
Solo == {1}

\* Largest options.maxRetries of the calls that run concurrently.
MaxConcRetries == 1

\* Largest number of execute calls made on one orchestrator instance.
MaxCalls == 2

----------------------------------------------------------------------------
\* Messages of the errors raised by the external collaborators.

TypeErrorText == <<"Cannot read properties of undefined">>
ZodErrorText == <<"Invalid input">>
VectorErrorText == <<"vector service unavailable">>
ModelErrorText == <<"language model unavailable">>
LoaderErrorText == <<"document cannot be loaded">>

\* A thrown value: an Error object carrying a message.
ErrorObj(m) == [isError |-> TRUE, message |-> m]

NoError == [isError |-> FALSE, message |-> <<>>]

----------------------------------------------------------------------------
\* Inputs of execute.

Actions == {"generate", "process", "analyze"}

\* options as supplied by the caller: absent (<<>>) or an object (<<o>>).
OptionValues ==
  [includeSimilarContracts : BOOLEAN, validateResults : BOOLEAN,
   maxRetries : (-1)..MaxRetries]

\* action may lie outside the enumeration; data may be absent, an object
\* without the payload of the action ("empty"), or carry it ("payload").
Inputs ==
  [action : Actions \cup {"archive"},
   data : {"payload", "empty", "absent"},
   options : {<<>>} \cup {<<o>> : o \in OptionValues}]

\* Inputs of the calls that run concurrently: every action and kind of data,
\* with the two flags either both set or both cleared.
ConcInputs ==
  {in \in Inputs :
     /\ in.options # <<>>
     /\ in.options[1].maxRetries \in 0..MaxConcRetries
     /\ in.options[1].includeSimilarContracts = in.options[1].validateResults}

\* Inputs of the calls made on a reused orchestrator instance: every action
\* and every maxRetries, with a payload or without data, both flags set.
ReuseInputs ==
  {in \in Inputs :
     /\ in.options # <<>>
     /\ in.data # "empty"
     /\ in.options[1].includeSimilarContracts
     /\ in.options[1].validateResults}

NoInput == [action |-> "generate", data |-> "absent", options |-> <<>>]

DEFAULT_OPTIONS ==
  [includeSimilarContracts |-> TRUE, validateResults |-> TRUE, maxRetries |-> 3]

\* workflowInputSchema.parse succeeds: action is in the enum and data is an
\* object; every field of data is optional (z.any().optional()), and
\* maxRetries is any number.
SchemaAccepts(in) == in.action \in Actions /\ in.data # "absent"

\* { ...DEFAULT_OPTIONS, ...inputOptions }
MergedOptions(in) == IF in.options = <<>> THEN DEFAULT_OPTIONS ELSE in.options[1]

\* options?.maxRetries ?? DEFAULT_OPTIONS.maxRetries
EffectiveMaxRetries(in) ==
  IF in.options = <<>> THEN DEFAULT_OPTIONS.maxRetries ELSE in.options[1].maxRetries

----------------------------------------------------------------------------
\* Formatting of a number inside a template literal.

Digit == <<"0", "1", "2", "3", "4", "5", "6", "7", "8", "9">>

RECURSIVE NumStr(_)
NumStr(n) ==
  IF n < 0 THEN <<"-">> \o NumStr(-n)
  ELSE IF n < 10 THEN <<Digit[n + 1]>>
  ELSE NumStr(n \div 10) \o <<Digit[(n % 10) + 1]>>

\* `Workflow failed after ${maxRetries} attempts: ${errorMessage}`
FailureText(n, msg) ==
  <<"Workflow failed after ">> \o NumStr(n) \o <<" attempts: ">> \o msg

\* error instanceof Error ? error.message : 'Unknown error occurred'
MessageOf(e) == IF e.isError THEN e.message ELSE <<"Unknown error occurred">>

----------------------------------------------------------------------------
\* The contract generation chain (chains/contract-generation.ts).

\* No value: an undefined field.
Undefined == <<>>

\* The clock stops at MaxTime.
MaxTime == 2

\* new Date(t).toISOString()
toISOString(t) == <<"T">> \o NumStr(t) \o <<"Z">>

\* The fields of contractSchema (metadata flattened); warnings is optional.
RequiredFields == {"title", "metadata.version", "metadata.lastUpdated", "summary"}
OptionalFields == {"warnings"}

\* A key contractSchema does not declare.
UnknownFields == {"notes"}

\* The texts the model may put in a field.
FieldTexts(k) ==
  IF k = "metadata.lastUpdated"
  THEN {<<"n/a">>} \cup {toISOString(t) : t \in 0..MaxTime}
  ELSE {<<k, " text">>}

\* The objects JsonOutputParser may hand to step 3: every field is a text or
\* is missing.
ModelOutputs ==
  {o \in [RequiredFields \cup OptionalFields \cup UnknownFields ->
            {Undefined} \cup UNION {FieldTexts(k) :
               k \in RequiredFields \cup OptionalFields \cup UnknownFields}] :
     \A k \in DOMAIN o : o[k] \in {Undefined} \cup FieldTexts(k)}

\* contractSchema.parse(output) succeeds: every required field is present.
Conforms(o) == \A k \in RequiredFields : o[k] # Undefined

\* The value contractSchema.parse(output) returns: the declared fields, the
\* unknown keys stripped.
contractSchemaParse(o) ==
  [k \in DOMAIN o |-> IF k \in UnknownFields THEN Undefined ELSE o[k]]

\* Variant: the timestamp of the model is kept.
StampKeepsOutput(validated, t) == validated

\* validated.metadata.lastUpdated = new Date().toISOString()
Stamp(validated, t) ==
  [validated EXCEPT !["metadata.lastUpdated"] = toISOString(t)]

----------------------------------------------------------------------------
\* searchContracts (tools/similarity-search.ts).  Scores are in tenths.

\* The largest options.limit of a call.
MaxLimit == 2

\* The depth of calls at which the stack overflows.
MaxStack == 3

\* minScore: z.number().min(0).max(1).default(0.7)
DefaultMinScore == 7

\* The optional filters, in the order buildFilterFunction looks at them.
FilterOrder ==
  <<"contractType", "dateRange.start", "dateRange.end", "propertyType",
    "jurisdiction">>

OptionalFilters == {FilterOrder[i] : i \in DOMAIN FilterOrder}

\* The clause .filter(column, operator, value) each filter adds; the value is
\* the one the caller supplied.
ArchivedClause == [column |-> "archived", op |-> "eq", value |-> "false"]

FilterClause(f) ==
  CASE f = "contractType" -> [column |-> "type", op |-> "eq", value |-> "purchase"]
    [] f = "dateRange.start" -> [column |-> "createdAt", op |-> "gte", value |-> "2024-02"]
    [] f = "dateRange.end" -> [column |-> "createdAt", op |-> "lte", value |-> "2024-03"]
    [] f = "propertyType" -> [column |-> "propertyType", op |-> "eq", value |-> "residential"]
    [] OTHER -> [column |-> "jurisdiction", op |-> "eq", value |-> "CA"]

\* The closures buildFilterFunction assigns to filterChain, oldest first: the
\* first one applies the archived clause, every later one calls filterChain
\* and adds its clause.
RECURSIVE Closures(_, _)
Closures(filters, i) ==
  IF i > Len(FilterOrder) THEN <<>>
  ELSE (IF FilterOrder[i] \in filters
        THEN <<[base |-> FALSE, clause |-> FilterClause(FilterOrder[i])]>>
        ELSE <<>>) \o Closures(filters, i + 1)

buildFilterFunction(filters) ==
  <<[base |-> TRUE, clause |-> ArchivedClause]>> \o Closures(filters, 1)

\* The vector store calls the function buildFilterFunction returned, the
\* last closure assigned.  Inside a closure `filterChain` is the variable,
\* which holds the last closure by the time of the call: the closure calls
\* itself until the stack overflows.
RECURSIVE Invoke(_, _)
Invoke(cs, depth) ==
  LET top == cs[Len(cs)] IN
  IF top.base THEN [overflow |-> FALSE, clauses |-> <<top.clause>>]
  ELSE IF depth >= MaxStack THEN [overflow |-> TRUE, clauses |-> <<>>]
  ELSE LET inner == Invoke(cs, depth + 1) IN
       IF inner.overflow THEN inner
       ELSE [inner EXCEPT !.clauses = Append(@, top.clause)]

\* The documents of the vector store with their metadata.
Corpus ==
  <<[archived |-> "false", type |-> "purchase", createdAt |-> "2024-02",
     propertyType |-> "residential", jurisdiction |-> "CA"],
    [archived |-> "false", type |-> "lease", createdAt |-> "2024-01",
     propertyType |-> "residential", jurisdiction |-> "NY"],
    [archived |-> "false", type |-> "purchase", createdAt |-> "2024-04",
     propertyType |-> "commercial", jurisdiction |-> "CA"],
    [archived |-> "true", type |-> "purchase", createdAt |-> "2024-03",
     propertyType |-> "residential", jurisdiction |-> "CA"]>>

\* The months in their order, for the comparison of timestamps.
Months == <<"2024-01", "2024-02", "2024-03", "2024-04">>

MonthIndex(m) == CHOOSE i \in DOMAIN Months : Months[i] = m

\* The row of document d passes a clause.
Passes(d, c) ==
  CASE c.op = "eq" -> Corpus[d][c.column] = c.value
    [] c.op = "gte" -> MonthIndex(Corpus[d][c.column]) >= MonthIndex(c.value)
    [] OTHER -> MonthIndex(Corpus[d][c.column]) <= MonthIndex(c.value)

\* The similarity scores the service may report.
Scores == {5, 7, 9}

\* The lists similaritySearchWithScore(query, k, filter) may resolve to: at
\* most k distinct documents that pass every clause, each with a score, in
\* the order the service delivers them.
RawLists(k, clauses) ==
  LET ok == {d \in DOMAIN Corpus : \A i \in DOMAIN clauses : Passes(d, clauses[i])} IN
  UNION {{l \in [1..n -> [document : ok, score : Scores]] :
            \A i, j \in 1..n : i # j => l[i].document # l[j].document} :
         n \in 0..k}

\* .map(([document, score], index) => ({document, score, rank: index + 1}))
MapRank(raw) ==
  [i \in DOMAIN raw |->
     [document |-> raw[i].document, score |-> raw[i].score, rank |-> i]]

\* options.minScore after searchParamsSchema.parse: the default when absent.
ParsedMinScore(minScore) ==
  IF minScore = <<>> THEN DefaultMinScore ELSE minScore[1]

\* options.minScore || 0.7: zero is falsy.
Threshold(minScore) ==
  IF ParsedMinScore(minScore) = 0 THEN DefaultMinScore ELSE ParsedMinScore(minScore)

\* .filter(result => result.score >= cutoff)
FilterByScore(rs, cutoff) ==
  LET Keep(x) == x.score >= cutoff IN SelectSeq(rs, Keep)

\* One element put into a list sorted by descending score, behind its equals.
RECURSIVE Insert(_, _)
Insert(sorted, x) ==
  IF sorted = <<>> THEN <<x>>
  ELSE IF sorted[1].score >= x.score
       THEN <<sorted[1]>> \o Insert(Tail(sorted), x)
       ELSE <<x>> \o sorted

\* .sort((a, b) => b.score - a.score): stable, descending by score.
RECURSIVE SortDesc(_)
SortDesc(rs) ==
  IF rs = <<>> THEN <<>>
  ELSE Insert(SortDesc(SubSeq(rs, 1, Len(rs) - 1)), rs[Len(rs)])

\* Variant: the results are left in the order of the service.
ProcessedResultsUnsorted(raw, minScore) ==
  FilterByScore(MapRank(raw), Threshold(minScore))

\* processedResults
ProcessedResults(raw, minScore) ==
  SortDesc(FilterByScore(MapRank(raw), Threshold(minScore)))

\* The parameters of a call: any subset of the optional filters, a limit and
\* an optional minScore.
SearchParams ==
  [filters : SUBSET OptionalFilters,
   limit : 1..MaxLimit,
   minScore : {<<>>, <<0>>, <<6>>, <<8>>}]

----------------------------------------------------------------------------
\* validateContractRules (tools/contract-analysis.ts).

\* The longest clause list.
MaxClauses == 3

\* The clause types of clauseSchema that matter to the rules, and one of the
\* others.
ClauseTypes == {"purchase_price", "closing_date", "contingencies", "other"}

RiskLevels == {"low", "medium", "high"}

ClauseLists ==
  UNION {[1..n -> [type : ClauseTypes, riskLevel : RiskLevels]] : n \in 0..MaxClauses}

\* array.join(sep)
RECURSIVE Join(_, _)
Join(xs, sep) ==
  IF xs = <<>> THEN <<>>
  ELSE IF Len(xs) = 1 THEN <<xs[1]>>
  ELSE <<xs[1], sep>> \o Join(Tail(xs), sep)

\* Variant: contingencies is not required.
requiredTypesShort == <<"purchase_price", "closing_date">>

requiredTypes == <<"purchase_price", "closing_date", "contingencies">>

\* requiredTypes.filter(type => !clauses.some(clause => clause.type === type))
missingRequired(clauses) ==
  LET Missing(t) == \A i \in DOMAIN clauses : clauses[i].type # t IN
  SelectSeq(requiredTypes, Missing)

\* clauses.filter(clause => clause.riskLevel === 'high')
highRiskClauses(clauses) ==
  LET High(c) == c.riskLevel = "high" IN SelectSeq(clauses, High)

\* validationRules.map(rule => ({rule: rule.name, ...rule.check(clauses)}))
validateContractRules(clauses) ==
  <<[rule |-> "required_clauses",
     passed |-> Len(missingRequired(clauses)) = 0,
     details |-> IF Len(missingRequired(clauses)) > 0
                 THEN <<"Missing required clauses: ">>
                        \o Join(missingRequired(clauses), ", ")
                 ELSE <<"All required clauses present">>],
    [rule |-> "high_risk_review",
     passed |-> Len(highRiskClauses(clauses)) = 0,
     details |-> IF Len(highRiskClauses(clauses)) > 0
                 THEN <<"Found ">> \o NumStr(Len(highRiskClauses(clauses)))
                        \o <<" high-risk clauses that need review">>
                 ELSE <<"No high-risk clauses found">>]>>

----------------------------------------------------------------------------
\* processFeedback (chains/feedback-processing.ts).

\* The feedback a caller may pass: the rating and one of the aspects, each
\* inside or outside the range of feedbackSchema.
FeedbackInputs == [rating : 0..6, clarity : 0..6]

\* feedbackSchema.parse succeeds: z.number().min(1).max(5) for the rating and
\* for every aspect.
feedbackSchemaAccepts(f) ==
  /\ f.rating >= 1 /\ f.rating <= 5
  /\ f.clarity >= 1 /\ f.clarity <= 5

\* The row inserted into the feedback table.
FeedbackRow(f) == [rating |-> f.rating, aspects |-> [clarity |-> f.clarity]]

\* The messages of the errors the database and the model report.
DbErrorText == <<"insert failed">>

FeedbackError(msg) == <<"Failed to process feedback: ">> \o msg

----------------------------------------------------------------------------
\* The contract store (vectorstores/contract-store.ts) over the table
\* contract_embeddings.

\* The most rows the table holds.
MaxRows == 3

ContractIds == {"c1", "c2"}

\* The rows the table holds before the first call: two documents that are
\* visible to the searches.
SeedTable ==
  <<[contractId |-> "c1", body |-> "old", archived |-> "false"],
    [contractId |-> "c2", body |-> "old", archived |-> "false"]>>

\* The row storeContractDocument adds: the metadata it writes has no archived
\* field.
NewRow(id) == [contractId |-> id, body |-> "new", archived |-> "missing"]

\* .delete().match({'metadata->>contractId': contractId})
WithoutId(table, id) ==
  LET Other(row) == row.contractId # id IN SelectSeq(table, Other)

\* .update({'metadata->archived': true}).match({'metadata->>contractId': contractId})
ArchivedId(table, id) ==
  [i \in DOMAIN table |->
     IF table[i].contractId = id THEN [table[i] EXCEPT !.archived = "true"]
     ELSE table[i]]

\* rpc.filter('metadata->archived', 'eq', false): the rows whose archived
\* field is false; a missing field compares as null and does not pass.
VisibleRows(table) == {table[i] : i \in {j \in DOMAIN table : table[j].archived = "false"}}

----------------------------------------------------------------------------
VARIABLES
  pc,          \* position of each run
  input,       \* the WorkflowInput the run was called with
  status,      \* state.status
  currentStep, \* state.currentStep
  results,     \* state.results: a mapping from output names to values
  error,       \* state.error (<<>> when unset)
  endTime,     \* state.endTime: "unset" or "stamped"
  retryCount,  \* the orchestrator's private retry counter
  exc,         \* the error on its way to the catch block of execute
  attempts,    \* history: pipelines dispatched by the run
  failures,    \* history: attempts of the run that raised an error
  lastRaised,  \* history: the error raised by the last failed attempt
  trace,       \* history: the steps settled in the current attempt, with outcome
  stored,      \* history: calls of storeContractDocument that succeeded in the run
  analysisFailed, \* history: attempts of the run that failed in the clause analysis
  inst,        \* history of the orchestrator instance: execute calls made on it,
               \* largest maxRetries of them, retryCount when the last one began
  search,      \* one call of searchContracts, exercised on its own
  chain,       \* one call of the contract generation chain, exercised on its own
  now,         \* the clock read by new Date()
  rules,       \* one call of validateContractRules, exercised on its own
  fb,          \* one call of processFeedback and the feedback table
  db           \* the contract_embeddings table and one call of the contract store

vars ==
  <<pc, input, status, currentStep, results, error, endTime, retryCount,
    exc, attempts, failures, lastRaised, trace, stored, analysisFailed, inst,
    search, chain, now, rules, fb, db>>

\* The variables of the analysis rules, the feedback pipeline and the
\* contract store.
libVars == <<rules, fb, db>>

\* The variables of the components exercised on their own.
toolVars == <<search, chain, now, libVars>>

stateVars == <<status, currentStep, results, error, endTime>>
histVars == <<attempts, failures, lastRaised>>

\* No call of searchContracts has been made.
NoSearch ==
  [pc |-> "idle", params |-> [filters |-> {}, limit |-> 1, minScore |-> <<>>],
   filterChain |-> <<>>, requested |-> 0, applied |-> <<>>, raw |-> <<>>,
   out |-> <<>>, error |-> <<>>]

\* No call of the generation chain has been made.
NoChain ==
  [pc |-> "idle", calledAt |-> 0, output |-> Undefined, validated |-> Undefined,
   stampedAt |-> 0, result |-> Undefined]

\* No call of validateContractRules has been made.
NoRules == [pc |-> "idle", clauses |-> <<>>, validationResults |-> <<>>]

\* No call of processFeedback has been made; the feedback table is empty.
NoFeedback ==
  [pc |-> "idle", input |-> [rating |-> 1, clarity |-> 1], table |-> <<>>,
   calls |-> <<>>, error |-> <<>>]

\* The contract store before any call.
NoStore ==
  [pc |-> "idle", op |-> "none", id |-> "c1", before |-> SeedTable,
   table |-> SeedTable, applied |-> FALSE, calls |-> <<>>, found |-> {},
   error |-> <<>>]

\* results: {}
NoResults == [n \in {} |-> "undefined"]

Init ==
  /\ pc = [r \in Runs |-> "idle"]
  /\ input = [r \in Runs |-> NoInput]
  /\ status = [r \in Runs |-> "none"]
  /\ currentStep = [r \in Runs |-> "none"]
  /\ results = [r \in Runs |-> NoResults]
  /\ error = [r \in Runs |-> <<>>]
  /\ endTime = [r \in Runs |-> "unset"]
  /\ retryCount = [r \in Runs |-> 0]
  /\ exc = [r \in Runs |-> NoError]
  /\ attempts = [r \in Runs |-> 0]
  /\ failures = [r \in Runs |-> 0]
  /\ lastRaised = [r \in Runs |-> NoError]
  /\ trace = [r \in Runs |-> <<>>]
  /\ stored = [r \in Runs |-> 0]
  /\ analysisFailed = [r \in Runs |-> 0]
  /\ inst = [r \in Runs |-> [calls |-> 0, largest |-> 0, entry |-> 0]]
  /\ search = NoSearch
  /\ chain = NoChain
  /\ now = 0
  /\ rules = NoRules
  /\ fb = NoFeedback
  /\ db = NoStore

----------------------------------------------------------------------------
Set(f, r, v) == [f EXCEPT ![r] = v]

\* The step `name` of run r settled with `outcome`.
Bump(counter, r, cond) == IF cond THEN Set(counter, r, counter[r] + 1) ELSE counter

\* Variant: a failure of the clause analysis takes back the document stored
\* in the same attempt.
LogUndoesStore(r, name, outcome) ==
  /\ trace' = Set(trace, r, Append(trace[r], <<name, outcome>>))
  /\ stored' = IF name = "analysisModel" /\ outcome # "ok" /\ stored[r] > 0
               THEN Set(stored, r, stored[r] - 1)
               ELSE Bump(stored, r, name = "store" /\ outcome = "ok")
  /\ analysisFailed' =
       Bump(analysisFailed, r, name = "analysisModel" /\ outcome # "ok")
  /\ UNCHANGED <<inst, toolVars>>

\* A step of the pipeline settled with `outcome`.
Log(r, name, outcome) ==
  /\ trace' = Set(trace, r, Append(trace[r], <<name, outcome>>))
  /\ stored' = Bump(stored, r, name = "store" /\ outcome = "ok")
  /\ analysisFailed' =
       Bump(analysisFailed, r, name = "analysisModel" /\ outcome # "ok")
  /\ UNCHANGED <<inst, toolVars>>

NoLog == UNCHANGED <<trace, stored, analysisFailed, inst, toolVars>>

\* An await rejects inside the try block of execute: control passes to the
\* catch block with the error.
Raise(r, e) ==
  /\ pc' = Set(pc, r, "catch")
  /\ exc' = Set(exc, r, e)
  /\ failures' = Set(failures, r, failures[r] + 1)
  /\ lastRaised' = Set(lastRaised, r, e)

updateState(r, st, step) ==
  /\ status' = Set(status, r, st)
  /\ currentStep' = Set(currentStep, r, step)

\* completeWorkflow without the endTime stamp.
completeWorkflowNoStamp(r) ==
  /\ status' = Set(status, r, "completed")
  /\ UNCHANGED endTime

completeWorkflow(r) ==
  /\ status' = Set(status, r, "completed")
  /\ endTime' = Set(endTime, r, "stamped")

\* The pipeline returned to execute, which stores the named outputs,
\* completes the workflow and returns the state.
Complete(r, outputs) ==
  /\ results' = Set(results, r, outputs @@ results[r])
  /\ completeWorkflow(r)
  /\ pc' = Set(pc, r, "returned")
  /\ UNCHANGED <<input, currentStep, error, retryCount, exc, histVars>>

\* A pipeline step raised e.
Fail(r, e) ==
  /\ Raise(r, e)
  /\ UNCHANGED <<input, stateVars, retryCount, attempts>>

\* A pipeline step succeeded; the run waits at the next suspension point.
Goto(r, next) ==
  /\ pc' = Set(pc, r, next)
  /\ UNCHANGED <<input, stateVars, retryCount, exc, histVars>>

----------------------------------------------------------------------------
\* executeContractWorkflow: new ContractWorkflowOrchestrator().
Call(r) ==
  /\ pc[r] = "idle"
  /\ \E in \in Inputs : input' = Set(input, r, in)
  /\ status' = Set(status, r, "pending")
  /\ currentStep' = Set(currentStep, r, "initialization")
  /\ results' = Set(results, r, NoResults)
  /\ retryCount' = Set(retryCount, r, 0)
  /\ pc' = Set(pc, r, "execute")
  /\ inst' = Set(inst, r, [calls |-> 1,
                           largest |-> EffectiveMaxRetries(input'[r]),
                           entry |-> 0])
  /\ UNCHANGED <<error, endTime, exc, histVars>>
  /\ UNCHANGED <<trace, stored, analysisFailed, toolVars>>

\* execute, try block up to the dispatch of the pipeline.
Execute(r) ==
  /\ pc[r] = "execute"
  /\ IF SchemaAccepts(input[r])
     THEN /\ updateState(r, "processing", input[r].action)
          /\ attempts' = Set(attempts, r, attempts[r] + 1)
          /\ pc' = Set(pc, r, input[r].action)
          /\ trace' = Set(trace, r, <<>>)
          /\ UNCHANGED <<exc, stored, analysisFailed, inst, toolVars>>
     ELSE /\ exc' = Set(exc, r, ErrorObj(ZodErrorText))
          /\ pc' = Set(pc, r, "catch")
          /\ UNCHANGED <<status, currentStep, attempts>>
          /\ NoLog
  /\ UNCHANGED <<input, results, error, endTime, retryCount, failures, lastRaised>>

\* Variant: a retry resumes the pipeline without passing through execute.
handleErrorResumes(r, e, maxRetries) ==
  IF retryCount[r] < maxRetries
  THEN /\ retryCount' = Set(retryCount, r, retryCount[r] + 1)
       /\ pc' = Set(pc, r, input[r].action)
       /\ UNCHANGED <<stateVars, exc>>
  ELSE /\ status' = Set(status, r, "failed")
       /\ error' = Set(error, r, FailureText(maxRetries, MessageOf(e)))
       /\ endTime' = Set(endTime, r, "stamped")
       /\ pc' = Set(pc, r, "returned")
       /\ UNCHANGED <<currentStep, results, retryCount, exc>>

\* handleError retrying once more than the budget allows.
handleErrorOffByOne(r, e, maxRetries) ==
  IF retryCount[r] <= maxRetries
  THEN /\ retryCount' = Set(retryCount, r, retryCount[r] + 1)
       /\ pc' = Set(pc, r, "execute")
       /\ UNCHANGED <<stateVars, exc>>
  ELSE /\ status' = Set(status, r, "failed")
       /\ error' = Set(error, r, FailureText(maxRetries, MessageOf(e)))
       /\ endTime' = Set(endTime, r, "stamped")
       /\ pc' = Set(pc, r, "returned")
       /\ UNCHANGED <<currentStep, results, retryCount, exc>>

\* handleError returning the state without marking it failed.
handleErrorKeepsStatus(r, e, maxRetries) ==
  IF retryCount[r] < maxRetries
  THEN /\ retryCount' = Set(retryCount, r, retryCount[r] + 1)
       /\ pc' = Set(pc, r, "execute")
       /\ UNCHANGED <<stateVars, exc>>
  ELSE /\ error' = Set(error, r, FailureText(maxRetries, MessageOf(e)))
       /\ endTime' = Set(endTime, r, "stamped")
       /\ pc' = Set(pc, r, "returned")
       /\ UNCHANGED <<status, currentStep, results, retryCount, exc>>

\* handleError marking the state failed before it decides to retry.
handleErrorFailsFirst(r, e, maxRetries) ==
  IF retryCount[r] < maxRetries
  THEN /\ retryCount' = Set(retryCount, r, retryCount[r] + 1)
       /\ status' = Set(status, r, "failed")
       /\ pc' = Set(pc, r, "execute")
       /\ UNCHANGED <<currentStep, results, error, endTime, exc>>
  ELSE /\ status' = Set(status, r, "failed")
       /\ error' = Set(error, r, FailureText(maxRetries, MessageOf(e)))
       /\ endTime' = Set(endTime, r, "stamped")
       /\ pc' = Set(pc, r, "returned")
       /\ UNCHANGED <<currentStep, results, retryCount, exc>>

\* handleError naming the attempts made instead of maxRetries.
handleErrorNamesAttempts(r, e, maxRetries) ==
  IF retryCount[r] < maxRetries
  THEN /\ retryCount' = Set(retryCount, r, retryCount[r] + 1)
       /\ pc' = Set(pc, r, "execute")
       /\ UNCHANGED <<stateVars, exc>>
  ELSE /\ status' = Set(status, r, "failed")
       /\ error' = Set(error, r, FailureText(retryCount[r] + 1, MessageOf(e)))
       /\ endTime' = Set(endTime, r, "stamped")
       /\ pc' = Set(pc, r, "returned")
       /\ UNCHANGED <<currentStep, results, retryCount, exc>>

\* handleError counting the retries in a counter shared by all orchestrators.
handleErrorSharedCounter(r, e, maxRetries) ==
  IF retryCount[r] < maxRetries
  THEN /\ retryCount' = [q \in Runs |-> retryCount[q] + 1]
       /\ pc' = Set(pc, r, "execute")
       /\ UNCHANGED <<stateVars, exc>>
  ELSE /\ status' = Set(status, r, "failed")
       /\ error' = Set(error, r, FailureText(maxRetries, MessageOf(e)))
       /\ endTime' = Set(endTime, r, "stamped")
       /\ pc' = Set(pc, r, "returned")
       /\ UNCHANGED <<currentStep, results, retryCount, exc>>

\* handleError(error, input, maxRetries)
handleError(r, e, maxRetries) ==
  IF retryCount[r] < maxRetries
  THEN /\ retryCount' = Set(retryCount, r, retryCount[r] + 1)
       /\ pc' = Set(pc, r, "execute")
       /\ UNCHANGED <<stateVars, exc>>
  ELSE /\ status' = Set(status, r, "failed")
       /\ error' = Set(error, r, FailureText(maxRetries, MessageOf(e)))
       /\ endTime' = Set(endTime, r, "stamped")
       /\ pc' = Set(pc, r, "returned")
       /\ UNCHANGED <<currentStep, results, retryCount, exc>>

\* execute, catch block: the input is parsed a second time to read the
\* options; a ZodError raised here leaves execute as a rejection.
Catch(r) ==
  /\ pc[r] = "catch"
  /\ IF SchemaAccepts(input[r])
     THEN handleError(r, exc[r], EffectiveMaxRetries(input[r]))
     ELSE /\ exc' = Set(exc, r, ErrorObj(ZodErrorText))
          /\ pc' = Set(pc, r, "rejected")
          /\ UNCHANGED <<stateVars, retryCount>>
  /\ UNCHANGED <<input, histVars>>
  /\ NoLog

----------------------------------------------------------------------------
\* Generation pipeline.

\* executeGenerationWorkflow up to its first await.  The query of
\* searchContracts is built from input.propertyDetails, which raises a
\* TypeError when data carries no contractInput.
executeGenerationWorkflow(r) ==
  /\ pc[r] = "generate"
  /\ LET opts == MergedOptions(input[r]) IN
     IF opts.includeSimilarContracts /\ input[r].data = "empty"
     THEN /\ Raise(r, ErrorObj(TypeErrorText))
          /\ updateState(r, "processing", "contract_generation")
          /\ UNCHANGED <<input, results, error, endTime, retryCount, attempts>>
          /\ Log(r, "executeGenerationWorkflow", "TypeError")
     ELSE /\ updateState(r, "processing", "contract_generation")
          /\ pc' = Set(pc, r, IF opts.includeSimilarContracts
                              THEN "searchContracts" ELSE "generateContract")
          /\ UNCHANGED <<input, results, error, endTime, retryCount, exc, histVars>>
          /\ NoLog

\* Variant: a failure of searchContracts is swallowed and the generation goes
\* on without similar contracts.
SearchContractsSettlesSwallows(r) ==
  /\ pc[r] = "searchContracts"
  /\ \E outcome \in {"ok", "error"} :
       Goto(r, "generateContract") /\ Log(r, "searchContracts", outcome)

\* searchContracts (tools/similarity-search.ts) settles: every failure is
\* rethrown as `Search operation failed: ${message}`.
SearchContractsSettles(r) ==
  /\ pc[r] = "searchContracts"
  /\ \/ Goto(r, "generateContract") /\ Log(r, "searchContracts", "ok")
     \/ /\ Fail(r, ErrorObj(<<"Search operation failed: ">> \o VectorErrorText))
        /\ Log(r, "searchContracts", "error")

\* generateContract, chain step 1 up to searchSimilarContracts: the query is
\* built from input.propertyDetails; every error inside generateContract is
\* replaced by Error('Failed to generate contract').
GenerateContractStarts(r) ==
  /\ pc[r] = "generateContract"
  /\ IF input[r].data = "empty"
     THEN /\ Fail(r, ErrorObj(<<"Failed to generate contract">>))
          /\ Log(r, "generateContract", "TypeError")
     ELSE Goto(r, "chainSearch") /\ NoLog

\* chain step 1: searchSimilarContracts (vectorstores/contract-store.ts) settles.
ChainSearchSettles(r) ==
  /\ pc[r] = "chainSearch"
  /\ \/ Goto(r, "chainModel") /\ Log(r, "searchSimilarContracts", "ok")
     \/ /\ Fail(r, ErrorObj(<<"Failed to generate contract">>))
        /\ Log(r, "searchSimilarContracts", "error")

\* Variant: an answer that does not conform to contractSchema is accepted as
\* the contract instead of being raised.
ChainModelSettlesRepairs(r) ==
  /\ pc[r] = "chainModel"
  /\ \/ /\ Fail(r, ErrorObj(<<"Failed to generate contract">>))
        /\ Log(r, "contractModel", "error")
     \/ \E outcome \in {"ok", "nonconforming"} :
          /\ IF MergedOptions(input[r]).validateResults
             THEN /\ updateState(r, "processing", "contract_validation")
                  /\ pc' = Set(pc, r, "analysisChain")
                  /\ UNCHANGED <<input, results, error, endTime, retryCount, exc, histVars>>
             ELSE Complete(r, "contract" :> "ContractOutput")
          /\ Log(r, "contractModel", outcome)

\* chain steps 2 and 3: the model answers and the answer is validated against
\* contractSchema; then executeGenerationWorkflow goes on to the analysis or
\* returns to execute.
ChainModelSettles(r) ==
  /\ pc[r] = "chainModel"
  /\ \/ \E outcome \in {"error", "nonconforming"} :
          /\ Fail(r, ErrorObj(<<"Failed to generate contract">>))
          /\ Log(r, "contractModel", outcome)
     \/ /\ IF MergedOptions(input[r]).validateResults
           THEN /\ updateState(r, "processing", "contract_validation")
                /\ pc' = Set(pc, r, "analysisChain")
                /\ UNCHANGED <<input, results, error, endTime, retryCount, exc, histVars>>
           ELSE Complete(r, "contract" :> "ContractOutput")
        /\ Log(r, "contractModel", "ok")

----------------------------------------------------------------------------
\* Document-processing pipeline.

\* executeProcessingWorkflow up to the first await of processContractDocument.
executeProcessingWorkflow(r) ==
  /\ pc[r] = "process"
  /\ updateState(r, "processing", "document_processing")
  /\ pc' = Set(pc, r, "load")
  /\ UNCHANGED <<input, results, error, endTime, retryCount, exc, histVars>>
  /\ NoLog

ProcessingError(msg) == ErrorObj(<<"Failed to process contract document: ">> \o msg)

\* loader.load() settles; without a documentFile the loader fails.
LoadSettles(r) ==
  /\ pc[r] = "load"
  /\ \/ Fail(r, ProcessingError(LoaderErrorText)) /\ Log(r, "load", "error")
     \/ /\ input[r].data = "payload"
        /\ Goto(r, "split") /\ Log(r, "load", "ok")

\* textSplitter.splitDocuments settles and chunks[0].pageContent is read; a
\* document without text has no first chunk.
SplitSettles(r) ==
  /\ pc[r] = "split"
  /\ \/ Goto(r, "extract") /\ Log(r, "split", "ok")
     \/ Fail(r, ProcessingError(TypeErrorText)) /\ Log(r, "split", "TypeError")

\* Variant: the document is stored whether or not the extracted metadata
\* conforms to contractMetadataSchema.
ExtractSettlesStoresUnvalidated(r) ==
  /\ pc[r] = "extract"
  /\ \/ \E outcome \in {"ok", "nonconforming"} :
          Goto(r, "store") /\ Log(r, "metadataModel", outcome)
     \/ Fail(r, ProcessingError(ModelErrorText)) /\ Log(r, "metadataModel", "error")

\* The metadata extraction chain settles (model call, then
\* contractMetadataSchema.parse).
ExtractSettles(r) ==
  /\ pc[r] = "extract"
  /\ \/ Goto(r, "store") /\ Log(r, "metadataModel", "ok")
     \/ Fail(r, ProcessingError(ModelErrorText)) /\ Log(r, "metadataModel", "error")
     \/ /\ Fail(r, ProcessingError(<<"Metadata validation failed: ">> \o ZodErrorText))
        /\ Log(r, "metadataModel", "nonconforming")

\* Variant: metadata and chunks are written to results as soon as
\* processContractDocument returned, before the analysis.
StoreSettlesWritesEarly(r) ==
  /\ pc[r] = "store"
  /\ \/ /\ Fail(r, ProcessingError(<<"Failed to store contract document">>))
        /\ Log(r, "store", "error")
     \/ /\ IF MergedOptions(input[r]).validateResults
           THEN /\ updateState(r, "processing", "document_validation")
                /\ pc' = Set(pc, r, "analysisChain")
                /\ results' = Set(results, r,
                     ("metadata" :> "ContractMetadata") @@ ("chunks" :> "Document[]"))
                /\ UNCHANGED <<input, error, endTime, retryCount, exc, histVars>>
           ELSE Complete(r, ("metadata" :> "ContractMetadata") @@ ("chunks" :> "Document[]"))
        /\ Log(r, "store", "ok")

\* storeContractDocument settles; processContractDocument returns and
\* executeProcessingWorkflow goes on to the analysis or returns to execute.
StoreSettles(r) ==
  /\ pc[r] = "store"
  /\ \/ /\ Fail(r, ProcessingError(<<"Failed to store contract document">>))
        /\ Log(r, "store", "error")
     \/ /\ IF MergedOptions(input[r]).validateResults
           THEN /\ updateState(r, "processing", "document_validation")
                /\ pc' = Set(pc, r, "analysisChain")
                /\ UNCHANGED <<input, results, error, endTime, retryCount, exc, histVars>>
           ELSE Complete(r, ("metadata" :> "ContractMetadata") @@ ("chunks" :> "Document[]"))
        /\ Log(r, "store", "ok")

----------------------------------------------------------------------------
\* Analysis pipeline (analyzeContract of tools/contract-analysis.ts).

\* executeAnalysisWorkflow up to the first await of analyzeContract;
\* params.contractText raises a TypeError when data carries no analysisParams.
executeAnalysisWorkflow(r) ==
  /\ pc[r] = "analyze"
  /\ updateState(r, "processing", "contract_analysis")
  /\ IF input[r].data = "empty"
     THEN /\ Raise(r, ErrorObj(TypeErrorText))
          /\ UNCHANGED <<input, results, error, endTime, retryCount, attempts>>
          /\ Log(r, "executeAnalysisWorkflow", "TypeError")
     ELSE /\ pc' = Set(pc, r, "analysisChain")
          /\ UNCHANGED <<input, results, error, endTime, retryCount, exc, histVars>>
          /\ NoLog

AnalysisError(msg) == ErrorObj(<<"Contract analysis failed: ">> \o msg)

\* Variant: compareWithSimilar follows options.includeSimilarContracts in
\* every workflow.
CompareWithSimilarAlways(in) == MergedOptions(in).includeSimilarContracts

\* compareWithSimilar: true only in the analysis workflow, from
\* options.includeSimilarContracts.
CompareWithSimilar(in) ==
  in.action = "analyze" /\ MergedOptions(in).includeSimilarContracts

\* validateRules: fixed to true in the generation and processing workflows,
\* options.validateResults in the analysis workflow.
ValidateRules(in) ==
  in.action # "analyze" \/ MergedOptions(in).validateResults

\* The AnalysisResult analyzeContract returns: comparisonResults and
\* validationResults keep the value of the first step unless overwritten.
AnalysisResult(in, compared) ==
  [comparisonResults |-> IF compared THEN "comparison" ELSE "extracted",
   validationResults |-> IF ValidateRules(in) THEN "rules" ELSE "extracted"]

\* The outputs stored in state.results when analyzeContract returned.
OutputsAfterAnalysis(in, compared) ==
  LET analysis == "analysis" :> AnalysisResult(in, compared) IN
  CASE in.action = "generate" -> analysis @@ ("contract" :> "ContractOutput")
    [] in.action = "process" ->
         analysis @@ ("metadata" :> "ContractMetadata") @@ ("chunks" :> "Document[]")
    [] OTHER -> analysis

\* The clause extraction chain settles (model call, then
\* analysisResultSchema.parse).
AnalysisChainSettles(r) ==
  /\ pc[r] = "analysisChain"
  /\ \/ Fail(r, AnalysisError(ModelErrorText)) /\ Log(r, "analysisModel", "error")
     \/ /\ Fail(r, AnalysisError(<<"Analysis validation failed: ">> \o ZodErrorText))
        /\ Log(r, "analysisModel", "nonconforming")
     \/ /\ IF CompareWithSimilar(input[r])
           THEN Goto(r, "analysisSearch")
           ELSE Complete(r, OutputsAfterAnalysis(input[r], FALSE))
        /\ Log(r, "analysisModel", "ok")

\* Variant: the comparison is made whether or not a match was found.
AnalysisSearchSettlesAlwaysCompares(r) ==
  /\ pc[r] = "analysisSearch"
  /\ \/ /\ Fail(r, AnalysisError(<<"Failed to search similar contracts">>))
        /\ Log(r, "searchSimilarContracts", "error")
     \/ \E outcome \in {"ok", "empty"} :
          Goto(r, "analysisCompare") /\ Log(r, "searchSimilarContracts", outcome)

\* searchSimilarContracts settles inside analyzeContract.
AnalysisSearchSettles(r) ==
  /\ pc[r] = "analysisSearch"
  /\ \/ /\ Fail(r, AnalysisError(<<"Failed to search similar contracts">>))
        /\ Log(r, "searchSimilarContracts", "error")
     \/ Goto(r, "analysisCompare") /\ Log(r, "searchSimilarContracts", "ok")
     \/ /\ Complete(r, OutputsAfterAnalysis(input[r], FALSE))
        /\ Log(r, "searchSimilarContracts", "empty")

\* compareWithSimilarContracts settles (second model call).
AnalysisCompareSettles(r) ==
  /\ pc[r] = "analysisCompare"
  /\ \/ Fail(r, AnalysisError(ModelErrorText)) /\ Log(r, "comparisonModel", "error")
     \/ /\ Complete(r, OutputsAfterAnalysis(input[r], TRUE))
        /\ Log(r, "comparisonModel", "ok")

----------------------------------------------------------------------------
Step(r) ==
  \/ Execute(r)
  \/ Catch(r)
  \/ executeGenerationWorkflow(r)
  \/ SearchContractsSettles(r)
  \/ GenerateContractStarts(r)
  \/ ChainSearchSettles(r)
  \/ ChainModelSettles(r)
  \/ executeProcessingWorkflow(r)
  \/ LoadSettles(r)
  \/ SplitSettles(r)
  \/ ExtractSettles(r)
  \/ StoreSettles(r)
  \/ executeAnalysisWorkflow(r)
  \/ AnalysisChainSettles(r)
  \/ AnalysisSearchSettles(r)
  \/ AnalysisCompareSettles(r)

\* One call of executeContractWorkflow.
Next == \E r \in Solo : Call(r) \/ Step(r)

Spec == Init /\ [][Next]_vars

\* Every await settles: a run that can take a step eventually takes one.
FairSpec == Spec /\ \A r \in Solo : WF_vars(Step(r))

\* Two calls of executeContractWorkflow, interleaved at their awaits.
CallConc(r) == Call(r) /\ input'[r] \in ConcInputs

NextConc == \E r \in Runs : CallConc(r) \/ Step(r)

SpecConc == Init /\ [][NextConc]_vars

----------------------------------------------------------------------------
\* An orchestrator instance on which execute is called again after an
\* earlier call returned or rejected.

Max(a, b) == IF a >= b THEN a ELSE b

\* The histories of a run at its beginning.
NewRun(r) ==
  /\ attempts' = Set(attempts, r, 0)
  /\ failures' = Set(failures, r, 0)
  /\ lastRaised' = Set(lastRaised, r, NoError)
  /\ trace' = Set(trace, r, <<>>)
  /\ stored' = Set(stored, r, 0)
  /\ analysisFailed' = Set(analysisFailed, r, 0)

\* Variant: execute begins with a retry counter of 0.
ReuseResetsCounter(r) ==
  /\ pc[r] \in {"returned", "rejected"}
  /\ inst[r].calls < MaxCalls
  /\ \E in \in ReuseInputs :
       /\ input' = Set(input, r, in)
       /\ inst' = Set(inst, r,
            [calls |-> inst[r].calls + 1,
             largest |-> Max(inst[r].largest, EffectiveMaxRetries(in)),
             entry |-> 0])
  /\ retryCount' = Set(retryCount, r, 0)
  /\ pc' = Set(pc, r, "execute")
  /\ exc' = Set(exc, r, NoError)
  /\ NewRun(r)
  /\ UNCHANGED <<stateVars, toolVars>>

\* orchestrator.execute(input) on an instance that has run before: execute
\* begins with the state and the retry counter the earlier call left.
Reuse(r) ==
  /\ pc[r] \in {"returned", "rejected"}
  /\ inst[r].calls < MaxCalls
  /\ \E in \in ReuseInputs :
       /\ input' = Set(input, r, in)
       /\ inst' = Set(inst, r,
            [calls |-> inst[r].calls + 1,
             largest |-> Max(inst[r].largest, EffectiveMaxRetries(in)),
             entry |-> retryCount[r]])
  /\ pc' = Set(pc, r, "execute")
  /\ exc' = Set(exc, r, NoError)
  /\ NewRun(r)
  /\ UNCHANGED <<stateVars, retryCount, toolVars>>

\* The first execute call on the instance.
CallReuse(r) == Call(r) /\ input'[r] \in ReuseInputs

NextReuse == \E r \in Solo : CallReuse(r) \/ Step(r) \/ Reuse(r)

SpecReuse == Init /\ [][NextReuse]_vars

----------------------------------------------------------------------------
\* One call of the generation chain, steps 2 and 3, with the clock.

workflowVars ==
  <<pc, input, status, currentStep, results, error, endTime, retryCount,
    exc, attempts, failures, lastRaised, trace, stored, analysisFailed, inst>>

\* Time passes.
Tick ==
  /\ now < MaxTime
  /\ now' = now + 1
  /\ UNCHANGED <<chain, search, libVars, workflowVars>>

\* chain.invoke(input): the prompt is sent to the model.
ChainInvoke ==
  /\ chain.pc = "idle"
  /\ chain' = [chain EXCEPT !.pc = "model", !.calledAt = now]
  /\ UNCHANGED <<now, search, libVars, workflowVars>>

\* Step 2 settles: JsonOutputParser hands the model's object to step 3.
ModelAnswers ==
  /\ chain.pc = "model"
  /\ \E o \in ModelOutputs : chain' = [chain EXCEPT !.pc = "validate", !.output = o]
  /\ UNCHANGED <<now, search, libVars, workflowVars>>

\* Step 3: contractSchema.parse, then the timestamp; a failure of the parse
\* is rethrown.
ValidateOutput ==
  /\ chain.pc = "validate"
  /\ IF Conforms(chain.output)
     THEN chain' = [chain EXCEPT
                      !.pc = "returned",
                      !.validated = contractSchemaParse(chain.output),
                      !.stampedAt = now,
                      !.result = Stamp(contractSchemaParse(chain.output), now)]
     ELSE chain' = [chain EXCEPT !.pc = "thrown"]
  /\ UNCHANGED <<now, search, libVars, workflowVars>>

NextChain == Tick \/ ChainInvoke \/ ModelAnswers \/ ValidateOutput

SpecChain == Init /\ [][NextChain]_vars

----------------------------------------------------------------------------
\* One call of searchContracts.

\* searchContracts(params) up to the await: the filter function is built and
\* the similarity search is requested with options.limit.
SearchCall ==
  /\ search.pc = "idle"
  /\ \E p \in SearchParams :
       search' = [search EXCEPT !.pc = "query", !.params = p,
                                !.filterChain = buildFilterFunction(p.filters),
                                !.requested = p.limit]
  /\ UNCHANGED <<chain, now, libVars, workflowVars>>

\* The vector store applies the filter function and resolves; the results
\* are ranked, cut off and sorted.  An error of the filter function or of the
\* service is rethrown by the catch block.
SimilaritySearchSettles ==
  /\ search.pc = "query"
  /\ LET filter == Invoke(search.filterChain, 0) IN
     IF filter.overflow
     THEN search' = [search EXCEPT
                       !.pc = "thrown",
                       !.error = <<"Search operation failed: ",
                                   "Maximum call stack size exceeded">>]
     ELSE \/ search' = [search EXCEPT
                          !.pc = "thrown", !.applied = filter.clauses,
                          !.error = <<"Search operation failed: ">> \o VectorErrorText]
          \/ \E raw \in RawLists(search.requested, filter.clauses) :
               search' = [search EXCEPT
                            !.pc = "returned", !.applied = filter.clauses,
                            !.raw = raw,
                            !.out = ProcessedResults(raw, search.params.minScore)]
  /\ UNCHANGED <<chain, now, libVars, workflowVars>>

NextSearch == SearchCall \/ SimilaritySearchSettles

SpecSearch == Init /\ [][NextSearch]_vars

----------------------------------------------------------------------------
\* One call of validateContractRules from analyzeContract.

\* analyzeContract reaches `if (options.validateRules)` with the clauses the
\* first step extracted; validationResults is what the model produced.
RulesCall ==
  /\ rules.pc = "idle"
  /\ \E cs \in ClauseLists :
       rules' = [pc |-> "called", clauses |-> cs,
                 validationResults |-> <<"extracted">>]
  /\ UNCHANGED <<search, chain, now, fb, db, workflowVars>>

\* baseAnalysis.validationResults = await validateContractRules(...)
RulesSettle ==
  /\ rules.pc = "called"
  /\ rules' = [rules EXCEPT !.pc = "validated",
                            !.validationResults = validateContractRules(rules.clauses)]
  /\ UNCHANGED <<search, chain, now, fb, db, workflowVars>>

NextRules == RulesCall \/ RulesSettle

SpecRules == Init /\ [][NextRules]_vars

----------------------------------------------------------------------------
\* One call of processFeedback.

\* processFeedback up to its first await: the feedback is validated and the
\* insert is sent.
ProcessFeedbackStarts ==
  /\ fb.pc = "idle"
  /\ \E f \in FeedbackInputs :
       IF feedbackSchemaAccepts(f)
       THEN fb' = [fb EXCEPT !.pc = "insert", !.input = f,
                             !.calls = Append(@, "insert")]
       ELSE fb' = [fb EXCEPT !.pc = "thrown", !.input = f,
                             !.error = FeedbackError(ZodErrorText)]
  /\ UNCHANGED <<search, chain, now, rules, db, workflowVars>>

\* The insert settles: with dbError the call throws, otherwise the row is in
\* the table and the analysis chain is invoked.
InsertSettles ==
  /\ fb.pc = "insert"
  /\ \/ fb' = [fb EXCEPT !.pc = "thrown",
                          !.error = FeedbackError(<<"Failed to store feedback: ">>
                                                    \o DbErrorText)]
     \/ fb' = [fb EXCEPT !.pc = "analysis",
                          !.table = Append(@, FeedbackRow(fb.input)),
                          !.calls = Append(@, "analysis")]
  /\ UNCHANGED <<search, chain, now, rules, db, workflowVars>>

\* Variant: the row is removed again when the analysis fails.
FeedbackChainSettlesRollsBack ==
  /\ fb.pc = "analysis"
  /\ \/ fb' = [fb EXCEPT !.pc = "returned"]
     \/ \E msg \in {ModelErrorText, <<"Analysis validation failed: ">> \o ZodErrorText} :
          fb' = [fb EXCEPT !.pc = "thrown", !.error = FeedbackError(msg),
                           !.table = SubSeq(@, 1, Len(@) - 1)]
  /\ UNCHANGED <<search, chain, now, rules, db, workflowVars>>

\* The feedback chain settles: the analysis is returned, or the error of the
\* model or of analysisSchema.parse is rethrown.
FeedbackChainSettles ==
  /\ fb.pc = "analysis"
  /\ \/ fb' = [fb EXCEPT !.pc = "returned"]
     \/ \E msg \in {ModelErrorText, <<"Analysis validation failed: ">> \o ZodErrorText} :
          fb' = [fb EXCEPT !.pc = "thrown", !.error = FeedbackError(msg)]
  /\ UNCHANGED <<search, chain, now, rules, db, workflowVars>>

NextFeedback == ProcessFeedbackStarts \/ InsertSettles \/ FeedbackChainSettles

SpecFeedback == Init /\ [][NextFeedback]_vars

----------------------------------------------------------------------------
\* Calls of the contract store, one at a time.

StoreReady == db.pc \in {"idle", "returned", "thrown"}

\* A call of operation op for document id starts and waits at `at`, having
\* made the calls `calls`.
Begin(op, id, at, calls) ==
  db' = [db EXCEPT !.pc = at, !.op = op, !.id = id, !.before = db.table,
                   !.applied = FALSE, !.calls = calls, !.found = {},
                   !.error = <<>>]

outsideStore == <<search, chain, now, rules, fb, workflowVars>>

\* storeContractDocument up to vectorStore.addDocuments.
storeContractDocument ==
  /\ StoreReady
  /\ Len(db.table) < MaxRows
  /\ \E id \in ContractIds : Begin("store", id, "adding", <<"store">>)
  /\ UNCHANGED outsideStore

\* addDocuments settles: the row is added, or the error is rethrown.
AddDocumentsSettles ==
  /\ db.pc = "adding"
  /\ \/ db' = [db EXCEPT !.pc = "returned", !.applied = TRUE,
                          !.table = Append(@, NewRow(db.id))]
     \/ db' = [db EXCEPT !.pc = "thrown",
                          !.error = <<"Failed to store contract document">>]
  /\ UNCHANGED outsideStore

\* deleteContractDocument up to the delete request.
deleteContractDocument ==
  /\ StoreReady
  /\ \E id \in ContractIds : Begin("delete", id, "deleting", <<"delete">>)
  /\ UNCHANGED outsideStore

\* The delete request resolves to {data, error}; the result is not looked at
\* and success is returned.
DeleteSettles ==
  /\ db.pc = "deleting"
  /\ \E applied \in BOOLEAN :
       db' = [db EXCEPT !.pc = "returned", !.applied = applied,
                        !.table = IF applied THEN WithoutId(@, db.id) ELSE @]
  /\ UNCHANGED outsideStore

\* archiveContractDocument up to the update request.
archiveContractDocument ==
  /\ StoreReady
  /\ \E id \in ContractIds : Begin("archive", id, "archiving", <<"update">>)
  /\ UNCHANGED outsideStore

\* The update request resolves to {data, error}; the result is not looked at
\* and success is returned.
ArchiveSettles ==
  /\ db.pc = "archiving"
  /\ \E applied \in BOOLEAN :
       db' = [db EXCEPT !.pc = "returned", !.applied = applied,
                        !.table = IF applied THEN ArchivedId(@, db.id) ELSE @]
  /\ UNCHANGED outsideStore

\* updateContractDocument up to the await of deleteContractDocument.
updateContractDocument ==
  /\ StoreReady
  /\ Len(db.table) < MaxRows
  /\ \E id \in ContractIds : Begin("update", id, "updateDeleting", <<"delete">>)
  /\ UNCHANGED outsideStore

\* deleteContractDocument returns inside updateContractDocument;
\* storeContractDocument is called.
UpdateDeleteSettles ==
  /\ db.pc = "updateDeleting"
  /\ \E applied \in BOOLEAN :
       db' = [db EXCEPT !.pc = "updateStoring", !.applied = applied,
                        !.calls = Append(@, "store"),
                        !.table = IF applied THEN WithoutId(@, db.id) ELSE @]
  /\ UNCHANGED outsideStore

\* Variant: a failed store puts the deleted rows back.
UpdateStoreSettlesRestores ==
  /\ db.pc = "updateStoring"
  /\ \/ db' = [db EXCEPT !.pc = "returned", !.table = Append(@, NewRow(db.id))]
     \/ db' = [db EXCEPT !.pc = "thrown", !.table = db.before,
                          !.error = <<"Failed to update contract document">>]
  /\ UNCHANGED outsideStore

\* storeContractDocument settles inside updateContractDocument: success, or
\* its error is caught and replaced.
UpdateStoreSettles ==
  /\ db.pc = "updateStoring"
  /\ \/ db' = [db EXCEPT !.pc = "returned", !.table = Append(@, NewRow(db.id))]
     \/ db' = [db EXCEPT !.pc = "thrown",
                          !.error = <<"Failed to update contract document">>]
  /\ UNCHANGED outsideStore

\* searchSimilarContracts up to vectorStore.similaritySearch.
searchSimilarContracts ==
  /\ StoreReady
  /\ Begin("search", db.id, "searching", <<"similaritySearch">>)
  /\ UNCHANGED outsideStore

\* The similarity search settles: some of the rows that pass the archived
\* filter, or an error, which is replaced.
SimilarSearchSettles ==
  /\ db.pc = "searching"
  /\ \/ \E rows \in SUBSET VisibleRows(db.table) :
          db' = [db EXCEPT !.pc = "returned", !.found = rows]
     \/ db' = [db EXCEPT !.pc = "thrown",
                          !.error = <<"Failed to search similar contracts">>]
  /\ UNCHANGED outsideStore

NextStore ==
  \/ storeContractDocument \/ AddDocumentsSettles
  \/ deleteContractDocument \/ DeleteSettles
  \/ archiveContractDocument \/ ArchiveSettles
  \/ updateContractDocument \/ UpdateDeleteSettles \/ UpdateStoreSettles
  \/ searchSimilarContracts \/ SimilarSearchSettles

SpecStore == Init /\ [][NextStore]_vars

----------------------------------------------------------------------------
\* Properties.

Returned(r) == pc[r] = "returned"
Finished(r) == pc[r] \in {"returned", "rejected"}

\* C1: retry bound.  With maxRetries = N >= 0 the pipeline is never
\* dispatched more than N+1 times; a run whose every attempt failed returns
\* status=failed after exactly N+1 dispatches (N retries), and status=failed
\* is returned only then.  N = 0 gives one dispatch and no retry.
RetryBound ==
  \A r \in Runs :
    LET N == EffectiveMaxRetries(input[r]) IN
    (pc[r] # "idle" /\ N >= 0) =>
      /\ attempts[r] <= N + 1
      /\ retryCount[r] <= N
      /\ (Returned(r) /\ failures[r] = attempts[r]) =>
           (status[r] = "failed" /\ attempts[r] = N + 1 /\ retryCount[r] = N)
      /\ (Returned(r) /\ status[r] = "failed") =>
           (failures[r] = N + 1 /\ attempts[r] = N + 1)

RetryBoundWitness ==
  /\ Returned(1) /\ status[1] = "failed"
  /\ EffectiveMaxRetries(input[1]) = MaxRetries
  /\ attempts[1] = MaxRetries + 1 /\ retryCount[1] = MaxRetries

\* C2: an input that does not conform to the WorkflowInput shape makes
\* execute return a state with status=failed and the validation message as
\* error, without dispatching a pipeline and without a retry.
InvalidInputReturnsFailed ==
  \A r \in Runs :
    (Finished(r) /\ ~SchemaAccepts(input[r])) =>
      /\ Returned(r)
      /\ status[r] = "failed"
      /\ error[r] = ZodErrorText
      /\ attempts[r] = 0 /\ retryCount[r] = 0

\* C3: execute always resolves to a WorkflowState; it never rejects with a
\* raw exception.
NeverRejects == \A r \in Runs : pc[r] # "rejected"

\* C4: termination.  A call with a valid generate input eventually returns,
\* and the state a call returns is completed or failed, never pending or
\* processing.
Termination ==
  /\ \A r \in Solo :
       (pc[r] = "execute" /\ input[r].action = "generate" /\ input[r].data = "payload")
         ~> (Returned(r) /\ status[r] \in {"completed", "failed"})
  /\ [](\A r \in Solo : Returned(r) => status[r] \in {"completed", "failed"})

TerminationWitness ==
  /\ Returned(1) /\ input[1].action = "generate" /\ input[1].data = "payload"
  /\ status[1] = "completed" /\ retryCount[1] >= 1

\* The changes of status of one orchestration run ("none": not yet created).
AllowedTransitions ==
  {<<"none", "pending">>, <<"pending", "processing">>,
   <<"processing", "completed">>, <<"processing", "failed">>}

\* C5: the status only moves pending -> processing -> completed | failed
\* (the state is created pending); a retry leaves the status at processing,
\* and completed and failed are never left.
StatusTransitions ==
  [][\A r \in Runs :
       /\ status'[r] # status[r] => <<status[r], status'[r]>> \in AllowedTransitions
       /\ (pc[r] = "catch" /\ pc'[r] = "execute") =>
            (status[r] = "processing" /\ status'[r] = "processing")]_vars

StatusTransitionsWitness ==
  /\ pc[1] = "execute" /\ retryCount[1] >= 1 /\ status[1] = "processing"

\* C6: endTime is set exactly when the status is completed or failed.
EndTimeIffTerminal ==
  \A r \in Runs :
    endTime[r] = "stamped" <=> status[r] \in {"completed", "failed"}

EndTimeIffTerminalWitness ==
  /\ Returned(1) /\ status[1] = "completed" /\ endTime[1] = "stamped"
  /\ input[1].action = "process"

\* C7: when the retry budget is exhausted the state returned is failed, has
\* endTime stamped and carries the error "Workflow failed after {maxRetries}
\* attempts: {message of the error of the last failed attempt}".
ExhaustedRetryError ==
  \A r \in Runs :
    (Returned(r) /\ status[r] = "failed") =>
      /\ endTime[r] = "stamped"
      /\ lastRaised[r].isError
      /\ error[r] =
           <<"Workflow failed after ">> \o NumStr(EffectiveMaxRetries(input[r]))
             \o <<" attempts: ">> \o lastRaised[r].message

ExhaustedRetryErrorWitness ==
  /\ Returned(1) /\ status[1] = "failed" /\ failures[1] = 2
  /\ error[1] = <<"Workflow failed after ", "1", " attempts: ",
                  "Search operation failed: ", "vector service unavailable">>

\* C8: the number named in the exhausted-retry message is the number of
\* times the pipeline was attempted by the run.
MessageNamesAttemptCount ==
  \A r \in Runs :
    (Returned(r) /\ status[r] = "failed") =>
      error[r] =
        <<"Workflow failed after ">> \o NumStr(attempts[r])
          \o <<" attempts: ">> \o lastRaised[r].message

\* Everything that belongs to one call.
RunView(r) ==
  <<pc[r], input[r], status[r], currentStep[r], results[r], error[r],
    endTime[r], retryCount[r], exc[r], attempts[r], failures[r], lastRaised[r],
    trace[r], stored[r], analysisFailed[r], inst[r]>>

\* The failures of the call itself that were followed by a retry.
OwnRetries(r) ==
  failures[r] - (IF pc[r] = "catch" \/ status[r] = "failed" THEN 1 ELSE 0)

\* C9: isolation of runs.  A step of one call changes nothing of the other
\* call, and the retry counter, the attempts and the final state of a call
\* are determined by its own input and its own failures, as when it runs
\* alone.
RunIsolation ==
  /\ [][\E q \in Runs : \A r \in Runs \ {q} : RunView(r)' = RunView(r)]_vars
  /\ [](\A r \in Runs :
          (pc[r] # "idle" /\ SchemaAccepts(input[r])) =>
            /\ retryCount[r] = OwnRetries(r)
            /\ attempts[r] = retryCount[r] + (IF pc[r] = "execute" THEN 0 ELSE 1)
            /\ attempts[r] <= EffectiveMaxRetries(input[r]) + 1
            /\ Returned(r) =>
                 IF failures[r] = attempts[r]
                 THEN /\ status[r] = "failed"
                      /\ attempts[r] = EffectiveMaxRetries(input[r]) + 1
                      /\ error[r] = FailureText(EffectiveMaxRetries(input[r]),
                                                lastRaised[r].message)
                 ELSE status[r] = "completed" /\ error[r] = <<>>)

RunIsolationWitness ==
  /\ Returned(1) /\ status[1] = "failed" /\ retryCount[1] = 1
  /\ pc[2] \notin {"idle", "execute", "catch", "returned", "rejected"}
  /\ retryCount[2] = 0 /\ attempts[2] = 1
  /\ EffectiveMaxRetries(input[2]) = 1

\* C10: an input without the payload of its action is a validation failure:
\* no pipeline is dispatched for it, the retry budget is not touched, and
\* execute returns status=failed.
MissingPayloadIsValidationFailure ==
  \A r \in Runs :
    (pc[r] # "idle" /\ input[r].action \in Actions /\ input[r].data = "empty") =>
      /\ attempts[r] = 0
      /\ retryCount[r] = 0
      /\ Finished(r) => (Returned(r) /\ status[r] = "failed")

\* The caller supplied options with a negative maxRetries.
NegativeMaxRetries(in) == in.options # <<>> /\ in.options[1].maxRetries < 0

\* C11: a negative options.maxRetries is rejected as a validation failure:
\* no pipeline is dispatched for such an input.
NegativeMaxRetriesRejected ==
  \A r \in Runs :
    (pc[r] # "idle" /\ NegativeMaxRetries(input[r])) => attempts[r] = 0

\* The steps that query the vector-similarity service: searchContracts of
\* the similarity-search tool and searchSimilarContracts of the contract store.
RetrieverSteps == {"searchContracts", "searchSimilarContracts"}

\* The positions of the current attempt's trace at which a step of `names`
\* settled.
Settled(r, names) == {i \in DOMAIN trace[r] : trace[r][i][1] \in names}

\* C12: in a generate workflow the similarity retriever is queried exactly
\* when includeSimilarContracts is set, and then it has completed before the
\* generative transform is invoked; with the flag cleared no similarity
\* retrieval happens at any point of the workflow.
RetrievalIffRequested ==
  \A r \in Runs :
    (pc[r] # "idle" /\ input[r].action = "generate") =>
      IF MergedOptions(input[r]).includeSimilarContracts
      THEN \A g \in Settled(r, {"contractModel"}) :
             \E i \in Settled(r, RetrieverSteps) :
               i < g /\ trace[r][i][2] = "ok"
      ELSE Settled(r, RetrieverSteps) = {}

\* The step that settled last in the current attempt, with its outcome.
LastEvent(r) ==
  IF trace[r] = <<>> THEN <<"none", "none">> ELSE trace[r][Len(trace[r])]

\* C13: when the answer of the generative transform does not conform to the
\* ContractOutput schema the generation pipeline raises, the failure is one
\* failed attempt that either consumes a retry or is the terminal one, and
\* nothing is stored under results.contract.
NonconformingContractRaises ==
  /\ [][\A r \in Runs :
          (pc[r] = "chainModel" /\ pc'[r] # "chainModel"
             /\ LastEvent(r)' = <<"contractModel", "nonconforming">>) =>
            /\ pc'[r] = "catch"
            /\ exc'[r].isError
            /\ failures'[r] = failures[r] + 1
            /\ results'[r] = results[r]]_vars
  /\ [](\A r \in Runs :
          LastEvent(r) = <<"contractModel", "nonconforming">> =>
            /\ "contract" \notin DOMAIN results[r]
            /\ failures[r] = attempts[r]
            /\ retryCount[r] = OwnRetries(r)
            /\ pc[r] = "catch"
                 \/ (pc[r] = "execute" /\ retryCount[r] = attempts[r])
                 \/ (Returned(r) /\ status[r] = "failed"))

NonconformingContractRaisesWitness ==
  /\ LastEvent(1) = <<"contractModel", "nonconforming">>
  /\ pc[1] = "execute"
  /\ retryCount[1] = 1

\* C15: in a generate workflow the analysis runs only when validateResults
\* is set, after the contract was generated, and with the rules validation
\* only (no similarity comparison); a completed generate workflow has
\* results.contract, and has results.analysis exactly when validateResults
\* is set.
GenerateAnalysisIffValidate ==
  \A r \in Runs :
    (pc[r] # "idle" /\ input[r].action = "generate") =>
      /\ \A a \in Settled(r, {"analysisModel"}) :
           /\ MergedOptions(input[r]).validateResults
           /\ \E g \in Settled(r, {"contractModel"}) :
                g < a /\ trace[r][g][2] = "ok"
           /\ \A i \in Settled(r, RetrieverSteps \cup {"comparisonModel"}) : i < a
      /\ pc[r] \notin {"analysisSearch", "analysisCompare"}
      /\ (Returned(r) /\ status[r] = "completed") =>
           /\ "contract" \in DOMAIN results[r]
           /\ "analysis" \in DOMAIN results[r]
                 <=> MergedOptions(input[r]).validateResults
           /\ MergedOptions(input[r]).validateResults =>
                 /\ LastEvent(r) = <<"analysisModel", "ok">>
                 /\ results[r]["analysis"] =
                      [comparisonResults |-> "extracted", validationResults |-> "rules"]

GenerateAnalysisIffValidateWitness ==
  /\ Returned(1) /\ status[1] = "completed"
  /\ input[1].action = "generate"
  /\ MergedOptions(input[1]).validateResults
  /\ MergedOptions(input[1]).includeSimilarContracts
  /\ "analysis" \in DOMAIN results[1]

\* The outcomes with which a step fails.
FailureOutcomes == {"error", "nonconforming", "TypeError"}

\* The message of the error as the step itself raised it.
OriginalMessage(ev) ==
  CASE ev[2] = "TypeError" -> TypeErrorText
    [] ev[2] = "nonconforming" -> ZodErrorText
    [] ev[1] \in RetrieverSteps \cup {"store"} -> VectorErrorText
    [] ev[1] = "load" -> LoaderErrorText
    [] OTHER -> ModelErrorText

\* The message of the error that leaves the pipeline of workflow `action`
\* when the step of event ev failed: the catch blocks on the way either put
\* a prefix before the message or replace it by a fixed text.
DeliveredMessage(action, ev) ==
  CASE ev[1] \in {"executeGenerationWorkflow", "executeAnalysisWorkflow"} ->
         TypeErrorText
    [] ev[1] = "searchContracts" ->
         <<"Search operation failed: ">> \o VectorErrorText
    [] ev[1] \in {"generateContract", "contractModel"} ->
         <<"Failed to generate contract">>
    [] ev[1] = "searchSimilarContracts" ->
         IF action = "generate"
         THEN <<"Failed to generate contract">>
         ELSE <<"Contract analysis failed: ", "Failed to search similar contracts">>
    [] ev[1] \in {"load", "split"} ->
         <<"Failed to process contract document: ">> \o OriginalMessage(ev)
    [] ev[1] = "metadataModel" ->
         <<"Failed to process contract document: ">> \o
           (IF ev[2] = "nonconforming"
            THEN <<"Metadata validation failed: ">> \o ZodErrorText
            ELSE ModelErrorText)
    [] ev[1] = "store" ->
         <<"Failed to process contract document: ",
           "Failed to store contract document">>
    [] ev[1] = "analysisModel" ->
         <<"Contract analysis failed: ">> \o
           (IF ev[2] = "nonconforming"
            THEN <<"Analysis validation failed: ">> \o ZodErrorText
            ELSE ModelErrorText)
    [] OTHER -> <<"Contract analysis failed: ">> \o ModelErrorText

\* C16 as stated: the error of a failed pipeline step reaches the retry
\* policy with the message of the original error.
ErrorsReachUnmodified ==
  \A r \in Runs :
    (pc[r] = "catch" /\ LastEvent(r)[2] \in FailureOutcomes) =>
      exc[r] = ErrorObj(OriginalMessage(LastEvent(r)))

\* C16 amended: the failure of a pipeline step is never swallowed: the
\* attempt ends in the catch block of execute with an Error, which the retry
\* policy sees and wraps in the final error; its message is the original one
\* behind the prefix of the enclosing pipeline, or the fixed text by which the
\* pipeline replaced it.
ErrorsReachWrapped ==
  \A r \in Runs :
    LastEvent(r)[2] \in FailureOutcomes =>
      LET msg == DeliveredMessage(input[r].action, LastEvent(r)) IN
      /\ pc[r] \in {"catch", "execute", "returned"}
      /\ failures[r] = attempts[r]
      /\ lastRaised[r] = ErrorObj(msg)
      /\ pc[r] = "catch" => exc[r] = ErrorObj(msg)
      /\ pc[r] = "execute" => retryCount[r] = attempts[r]
      /\ pc[r] = "returned" =>
           /\ status[r] = "failed"
           /\ error[r] = FailureText(EffectiveMaxRetries(input[r]), msg)

ErrorsReachWrappedWitness ==
  /\ Returned(1) /\ status[1] = "failed"
  /\ LastEvent(1) = <<"searchContracts", "error">>
  /\ retryCount[1] = 1

\* C14: in every contract the generation chain returns, metadata.lastUpdated
\* is the timestamp taken once the schema validation succeeded, at or after
\* the time of the call, whatever the model put in that field; every other
\* validated field is returned unchanged.
LastUpdatedOverwritten ==
  chain.pc = "returned" =>
    /\ chain.result["metadata.lastUpdated"] = toISOString(chain.stampedAt)
    /\ chain.calledAt <= chain.stampedAt /\ chain.stampedAt <= now
    /\ \A k \in DOMAIN chain.result \ {"metadata.lastUpdated"} :
         /\ chain.result[k] = chain.validated[k]
         /\ k \notin UnknownFields => chain.result[k] = chain.output[k]

LastUpdatedOverwrittenWitness ==
  /\ chain.pc = "returned"
  /\ chain.calledAt = 1
  /\ chain.stampedAt = 2
  /\ chain.output["metadata.lastUpdated"] = toISOString(0)
  /\ chain.output["warnings"] # Undefined

\* C17 as stated: the list searchContracts returns is strictly sorted by
\* descending score, every score is at least options.minScore and no
\* element is archived.
StrictlySortedAboveMinScore ==
  search.pc = "returned" =>
    /\ \A i, j \in DOMAIN search.out :
         i < j => search.out[i].score > search.out[j].score
    /\ \A i \in DOMAIN search.out :
         /\ search.out[i].score >= ParsedMinScore(search.params.minScore)
         /\ Corpus[search.out[i].document].archived = "false"

\* C17 amended: the list searchContracts returns is sorted by descending
\* score with equal scores next to each other, every score is at least
\* options.minScore and no element is archived.
SortedAboveMinScore ==
  search.pc = "returned" =>
    /\ \A i, j \in DOMAIN search.out :
         i < j => search.out[i].score >= search.out[j].score
    /\ \A i \in DOMAIN search.out :
         /\ search.out[i].score >= ParsedMinScore(search.params.minScore)
         /\ Corpus[search.out[i].document].archived = "false"

SortedAboveMinScoreWitness ==
  /\ search.pc = "returned"
  /\ Len(search.raw) = 2
  /\ search.raw[1].score < search.raw[2].score
  /\ Len(search.out) = 2
  /\ search.params.minScore = <<6>>

\* C18: in the list searchContracts returns the element at position i has
\* rank i.
RankIsPosition ==
  search.pc = "returned" =>
    \A i \in DOMAIN search.out : search.out[i].rank = i

\* The filter buildFilterFunction is to produce for the supplied filters.
ExpectedClauses(filters) ==
  {ArchivedClause} \cup {FilterClause(f) : f \in filters}

\* C19: for every subset of the optional filters the filter function
\* terminates, and it applies archived = false together with exactly the
\* clauses of the supplied filters.
FilterIsConjunction ==
  search.pc \in {"returned", "thrown"} =>
    /\ search.error # <<"Search operation failed: ", "Maximum call stack size exceeded">>
    /\ {search.applied[i] : i \in DOMAIN search.applied}
         = ExpectedClauses(search.params.filters)

\* C20: searchContracts requests options.limit candidates and returns exactly
\* the candidates whose score is at least the supplied minScore (0.7 when
\* none is supplied), so at most limit elements.
ReturnsExactlyAboveMinScore ==
  search.pc = "returned" =>
    /\ search.requested = search.params.limit
    /\ Len(search.out) <= search.params.limit
    /\ {[document |-> search.out[i].document, score |-> search.out[i].score] :
           i \in DOMAIN search.out}
         = {search.raw[i] : i \in {j \in DOMAIN search.raw :
              search.raw[j].score >= ParsedMinScore(search.params.minScore)}}

\* The pieces of a text.
Pieces(text) == {text[i] : i \in DOMAIN text}

\* C21: with validateRules set, validationResults is replaced by the two
\* entries of the local rule set: required_clauses fails exactly when one of
\* purchase_price, closing_date, contingencies is not among the clause types,
\* and its details name exactly the missing types; high_risk_review fails
\* exactly when some clause has riskLevel high, and its details give the
\* number of such clauses.
LocalRuleSet ==
  rules.pc = "validated" =>
    LET v == rules.validationResults
        types == {rules.clauses[i].type : i \in DOMAIN rules.clauses}
        high == {i \in DOMAIN rules.clauses : rules.clauses[i].riskLevel = "high"}
        required == {"purchase_price", "closing_date", "contingencies"}
    IN /\ Len(v) = 2
       /\ v[1].rule = "required_clauses"
       /\ v[2].rule = "high_risk_review"
       /\ v[1].passed <=> required \subseteq types
       /\ \A t \in ClauseTypes :
            t \in Pieces(v[1].details) <=> (t \in required /\ t \notin types)
       /\ v[2].passed <=> high = {}
       /\ high # {} =>
            v[2].details = <<"Found ">> \o NumStr(Cardinality(high))
                             \o <<" high-risk clauses that need review">>

LocalRuleSetWitness ==
  /\ rules.pc = "validated"
  /\ Len(rules.clauses) = 3
  /\ \A i \in DOMAIN rules.clauses : rules.clauses[i].type # "closing_date"
  /\ rules.validationResults[1].details =
       <<"Missing required clauses: ", "closing_date">>
  /\ rules.validationResults[2].details =
       <<"Found ", "2", " high-risk clauses that need review">>

\* C22: in analyzeContract the similarity retrieval and the second model
\* call happen only when compareWithSimilar is set, the second call only
\* after a retrieval that found a match, and comparisonResults is overwritten
\* only by that call; otherwise it stays as the first step produced it.
ComparisonOnlyWhenRequested ==
  \A r \in Runs :
    pc[r] # "idle" =>
      /\ \A a \in Settled(r, {"analysisModel"}) :
           \A i \in Settled(r, {"searchSimilarContracts", "comparisonModel"}) :
             i > a => CompareWithSimilar(input[r])
      /\ \A c \in Settled(r, {"comparisonModel"}) :
           /\ c > 2
           /\ trace[r][c - 1] = <<"searchSimilarContracts", "ok">>
           /\ trace[r][c - 2] = <<"analysisModel", "ok">>
      /\ pc[r] = "analysisSearch" =>
           CompareWithSimilar(input[r]) /\ LastEvent(r) = <<"analysisModel", "ok">>
      /\ pc[r] = "analysisCompare" =>
           LastEvent(r) = <<"searchSimilarContracts", "ok">>
      /\ (Returned(r) /\ "analysis" \in DOMAIN results[r]) =>
           results[r]["analysis"].comparisonResults =
             (IF LastEvent(r) = <<"comparisonModel", "ok">>
              THEN "comparison" ELSE "extracted")

ComparisonOnlyWhenRequestedWitness ==
  /\ Returned(1) /\ status[1] = "completed"
  /\ input[1].action = "analyze"
  /\ "analysis" \in DOMAIN results[1]
  /\ results[1]["analysis"].comparisonResults = "comparison"

\* C23: processFeedback validates, then stores, then analyses: the store call
\* precedes the analysis call, the analysis is not invoked when the
\* validation or the store failed, invalid feedback is never stored, and when
\* the analysis fails the stored feedback stays while the call reports an
\* error.
FeedbackStoredThenAnalysed ==
  LET valid == fb.input.rating \in 1..5 /\ fb.input.clarity \in 1..5
      row == [rating |-> fb.input.rating, aspects |-> [clarity |-> fb.input.clarity]]
  IN fb.pc # "idle" =>
       /\ fb.calls \in {<<>>, <<"insert">>, <<"insert", "analysis">>}
       /\ ~valid => (fb.pc = "thrown" /\ fb.calls = <<>> /\ fb.table = <<>>)
       /\ valid => fb.calls # <<>>
       /\ fb.table = (IF fb.calls = <<"insert", "analysis">> THEN <<row>> ELSE <<>>)
       /\ fb.pc = "analysis" => fb.calls = <<"insert", "analysis">>
       /\ fb.pc = "returned" => fb.calls = <<"insert", "analysis">>
       /\ fb.pc = "thrown" <=> fb.error # <<>>

FeedbackStoredThenAnalysedWitness ==
  /\ fb.pc = "thrown"
  /\ fb.calls = <<"insert", "analysis">>
  /\ Len(fb.table) = 1
  /\ fb.input.rating = 5

\* The rows of document id in a table.
RowsOf(table, id) == {i \in DOMAIN table : table[i].contractId = id}

\* C24: updateContractDocument deletes before it stores and is not atomic:
\* once the delete is done the table holds no row of the document until the
\* store succeeds, and when the store fails the call reports an error and
\* the table holds neither the old nor the new document.
UpdateDeletesThenStores ==
  db.op = "update" =>
    /\ db.pc = "updateDeleting" => (db.calls = <<"delete">> /\ db.table = db.before)
    /\ db.pc \in {"updateStoring", "returned", "thrown"} =>
         db.calls = <<"delete", "store">>
    /\ (db.pc \in {"updateStoring", "thrown"} /\ db.applied) =>
         RowsOf(db.table, db.id) = {}
    /\ db.pc = "thrown" => db.error = <<"Failed to update contract document">>
    /\ db.pc = "returned" =>
         db.table = Append(IF db.applied THEN WithoutId(db.before, db.id)
                           ELSE db.before,
                           [contractId |-> db.id, body |-> "new", archived |-> "missing"])

UpdateDeletesThenStoresWitness ==
  /\ db.op = "update" /\ db.pc = "thrown" /\ db.applied
  /\ RowsOf(db.before, db.id) # {}
  /\ RowsOf(db.table, db.id) = {}

\* C25: when archiveContractDocument(id) has returned, the rows of the
\* document are kept with archived set to true and no search returns them;
\* when deleteContractDocument(id) has returned, no row of the document is
\* left; the rows of other documents are unchanged by both.
ArchiveAndDeleteEffects ==
  /\ (db.op = "archive" /\ db.pc = "returned") =>
       /\ Len(db.table) = Len(db.before)
       /\ \A i \in DOMAIN db.table :
            IF db.before[i].contractId = db.id
            THEN db.table[i] = [db.before[i] EXCEPT !.archived = "true"]
            ELSE db.table[i] = db.before[i]
  /\ (db.op = "delete" /\ db.pc = "returned") =>
       /\ RowsOf(db.table, db.id) = {}
       /\ WithoutId(db.table, db.id) = WithoutId(db.before, db.id)
  /\ \A row \in db.found : row.archived # "true"

\* The steps of the pipeline of a workflow, in the order of the code.
PipelineSteps(action) ==
  CASE action = "generate" ->
         <<"executeGenerationWorkflow", "searchContracts", "generateContract",
           "searchSimilarContracts", "contractModel", "analysisModel">>
    [] action = "process" ->
         <<"load", "split", "metadataModel", "store", "analysisModel">>
    [] action = "analyze" ->
         <<"executeAnalysisWorkflow", "analysisModel", "searchSimilarContracts",
           "comparisonModel">>
    [] OTHER -> <<>>

\* The position of step `name` in the pipeline, 0 when it is not a step of it.
StepIndex(action, name) ==
  LET steps == PipelineSteps(action) IN
  IF \E k \in DOMAIN steps : steps[k] = name
  THEN CHOOSE k \in DOMAIN steps : steps[k] = name
  ELSE 0

\* The steps with which an attempt of the workflow can begin to settle.
EntrySteps(in) ==
  CASE in.action = "generate" ->
         IF MergedOptions(in).includeSimilarContracts
         THEN {"executeGenerationWorkflow", "searchContracts"}
         ELSE {"generateContract", "searchSimilarContracts"}
    [] in.action = "process" -> {"load"}
    [] in.action = "analyze" -> {"executeAnalysisWorkflow", "analysisModel"}
    [] OTHER -> {}

\* C26: every retry re-enters execute with the input of the call; every
\* attempt validates the input, sets currentStep to the action and runs the
\* pipeline from its first step, each step at most once in pipeline order;
\* the input (action and options) never changes during a run.
RetryIsWholeReexecution ==
  /\ [][\A r \in Runs :
          /\ pc[r] # "idle" => input'[r] = input[r]
          /\ retryCount'[r] # retryCount[r] =>
                retryCount'[r] = retryCount[r] + 1 /\ pc'[r] = "execute"
          /\ attempts'[r] # attempts[r] =>
                /\ pc[r] = "execute" /\ SchemaAccepts(input[r])
                /\ attempts'[r] = retryCount[r] + 1
                /\ currentStep'[r] = input[r].action
                /\ pc'[r] = input[r].action
                /\ trace'[r] = <<>>]_vars
  /\ [](\A r \in Runs :
          /\ pc[r] \notin {"idle", "execute", "catch", "rejected"} =>
                attempts[r] = retryCount[r] + 1
          /\ trace[r] # <<>> => trace[r][1][1] \in EntrySteps(input[r])
          /\ \A i, j \in DOMAIN trace[r] :
                /\ StepIndex(input[r].action, trace[r][i][1]) > 0
                /\ i < j => StepIndex(input[r].action, trace[r][i][1])
                              < StepIndex(input[r].action, trace[r][j][1]))

\* A run in its second retry that has passed the steps at which the earlier
\* attempts failed.
RetryIsWholeReexecutionWitness ==
  /\ retryCount[1] = 2 /\ attempts[1] = 3
  /\ input[1].action = "process"
  /\ pc[1] = "store"
  /\ trace[1] = <<<<"load", "ok">>, <<"split", "ok">>, <<"metadataModel", "ok">>>>

\* C27: in the processing pipeline the steps settle in the order load, split,
\* metadata extraction, store, clause analysis; the store is called only when
\* the extracted metadata has passed validation, and the clause analysis only
\* after the store and only with validateResults.
ProcessingOrder ==
  \A r \in Runs :
    (pc[r] # "idle" /\ input[r].action = "process") =>
      LET t == trace[r]
          okBefore(i, names) ==
            /\ i = Len(names) + 1
            /\ \A k \in 1..Len(names) : t[k] = <<names[k], "ok">>
      IN
      /\ \A i \in DOMAIN t :
           /\ t[i][1] = "load" => i = 1
           /\ t[i][1] = "split" => okBefore(i, <<"load">>)
           /\ t[i][1] = "metadataModel" => okBefore(i, <<"load", "split">>)
           /\ t[i][1] = "store" =>
                okBefore(i, <<"load", "split", "metadataModel">>)
           /\ t[i][1] = "analysisModel" =>
                /\ okBefore(i, <<"load", "split", "metadataModel", "store">>)
                /\ MergedOptions(input[r]).validateResults
           /\ t[i][1] \in {"load", "split", "metadataModel", "store", "analysisModel"}
      /\ pc[r] = "store" =>
           t = <<<<"load", "ok">>, <<"split", "ok">>, <<"metadataModel", "ok">>>>
      /\ (\E i \in DOMAIN t : t[i][1] = "metadataModel" /\ t[i][2] # "ok") =>
           /\ pc[r] # "store"
           /\ \A i \in DOMAIN t : t[i][1] # "store"

\* A processing run that completed with the clause analysis.
ProcessingOrderWitness ==
  /\ Returned(1) /\ status[1] = "completed"
  /\ input[1].action = "process"
  /\ Len(trace[1]) = 5
  /\ trace[1][5] = <<"analysisModel", "ok">>

\* C28: results is empty unless the workflow completed; outputs are present
\* only in a returned, completed state whose last attempt had no failing
\* step; a failed state has empty results and a completed state has no error.
NoPartialResults ==
  \A r \in Runs :
    /\ status[r] # "completed" => results[r] = NoResults
    /\ results[r] # NoResults =>
         /\ Returned(r)
         /\ \A i \in DOMAIN trace[r] : trace[r][i][2] \notin FailureOutcomes
    /\ status[r] = "completed" =>
         /\ error[r] = <<>>
         /\ DOMAIN results[r] # {}
         /\ DOMAIN results[r] \subseteq {"contract", "analysis", "metadata", "chunks"}

\* A processing run that failed in the clause analysis of its last attempt,
\* after the document was stored, and returned without outputs.
NoPartialResultsWitness ==
  /\ Returned(1) /\ status[1] = "failed"
  /\ retryCount[1] = 1
  /\ input[1].action = "process"
  /\ Len(trace[1]) = 5 /\ trace[1][4] = <<"store", "ok">>
  /\ trace[1][5][2] \in FailureOutcomes
  /\ results[1] = NoResults

\* C29: every successful call of the store in a processing workflow stays
\* counted, whatever fails afterwards, and at most one is made per attempt;
\* a run with validateResults whose every attempt failed in the clause
\* analysis ends failed with the store having been called maxRetries + 1
\* times (maxRetries = N >= 0).
StoreOncePerAttempt ==
  /\ [][\A r \in Runs :
          /\ stored'[r] >= stored[r]
          /\ stored'[r] # stored[r] =>
                /\ stored'[r] = stored[r] + 1
                /\ pc[r] = "store" /\ input[r].action = "process"]_vars
  /\ [](\A r \in Runs :
          /\ stored[r] <= attempts[r]
          /\ (/\ pc[r] \in {"returned", "rejected"}
              /\ input[r].action = "process"
              /\ MergedOptions(input[r]).validateResults
              /\ EffectiveMaxRetries(input[r]) >= 0
              /\ attempts[r] > 0 /\ analysisFailed[r] = attempts[r]) =>
                /\ Returned(r) /\ status[r] = "failed"
                /\ stored[r] = EffectiveMaxRetries(input[r]) + 1)

\* A processing run with maxRetries = 2 that failed three times in the clause
\* analysis.
StoreOncePerAttemptWitness ==
  /\ Returned(1) /\ status[1] = "failed"
  /\ input[1].action = "process"
  /\ MergedOptions(input[1]).validateResults
  /\ EffectiveMaxRetries(input[1]) = 2
  /\ analysisFailed[1] = 3
  /\ stored[1] = 3

\* C30: on one orchestrator instance the retry counter never decreases and
\* never exceeds the largest maxRetries of its execute calls (maxRetries
\* >= 0); every retry counts, so a call makes at most as many retries as its
\* maxRetries leaves above the counter it began with; and a later execute
\* call begins with the status, results, error and counter the earlier call
\* left.
RetryCounterNeverReset ==
  /\ [][\A r \in Runs :
          /\ retryCount'[r] >= retryCount[r]
          /\ (inst[r].calls >= 1 /\ inst'[r].calls # inst[r].calls) =>
                /\ retryCount'[r] = retryCount[r]
                /\ inst'[r].entry = retryCount[r]
                /\ status'[r] = status[r]
                /\ results'[r] = results[r]
                /\ error'[r] = error[r]
                /\ pc'[r] = "execute"]_vars
  /\ [](\A r \in Runs :
          (inst[r].calls >= 1 /\ inst[r].largest >= 0) =>
            /\ retryCount[r] <= inst[r].largest
            /\ retryCount[r] - inst[r].entry
                 <= Max(0, EffectiveMaxRetries(input[r]) - inst[r].entry)
            /\ attempts[r] > 0 =>
                 retryCount[r] - inst[r].entry
                   = attempts[r] - (IF pc[r] = "execute" THEN 0 ELSE 1))

\* A second execute call with maxRetries = 2 on an instance whose first call
\* used up the two retries: it failed at its first failure.
RetryCounterNeverResetWitness ==
  /\ inst[1].calls = 2 /\ inst[1].entry = 2 /\ inst[1].largest = 2
  /\ EffectiveMaxRetries(input[1]) = 2
  /\ Returned(1) /\ status[1] = "failed"
  /\ attempts[1] = 1 /\ retryCount[1] = 2
====
